---- MODULE Spec2Model ----
(***************************************************************************)
(* A model of the SkinvedAPI client (src/src/APIskinved.js): the request   *)
(* signature (#generateSignature), the thirteen endpoint methods, the      *)
(* axios instance they share (its defaults.headers slots, its              *)
(* paramsSerializer and its response interceptor).                         *)
(*                                                                         *)
(* Strings are sequences of one-character strings, so that the code-unit   *)
(* comparison of Array.prototype.sort and toLowerCase can be computed.     *)
(* Error messages, which are only ever concatenated, are TLA+ strings.     *)
(***************************************************************************)
EXTENDS Integers, Sequences, FiniteSets

VARIABLES
    inst,       \* the constructed SkinvedAPI object, or NoInstance
    ctorError,  \* what the constructor threw, or NoError
    headers,    \* this.client.defaults.headers: the X-Timestamp / X-Signature slots
    clock,      \* the value Date.now() returned last
    calls,      \* the endpoint calls made so far, each with its position
    wire,       \* the requests handed to the network, in order
    sigData,    \* input of the signature generator (pure-function specification)
    sigOther,   \* a second input derived from sigData
    sigOut      \* the canonical strings / signatures computed from them

vars == <<inst, ctorError, headers, clock, calls, wire, sigData, sigOther, sigOut>>

(***************************************************************************)
(* Characters and strings                                                  *)
(***************************************************************************)

\* The printable ASCII characters in code-unit order, starting at U+0020.
\* (U+0060 is written "grave": the lexer does not take a backquote in a string.)
Ascii ==
    << " ", "!", "\"", "#", "$", "%", "&", "'", "(", ")", "*", "+", ",", "-", ".", "/",
       "0", "1", "2", "3", "4", "5", "6", "7", "8", "9", ":", ";", "<", "=", ">", "?",
       "@", "A", "B", "C", "D", "E", "F", "G", "H", "I", "J", "K", "L", "M", "N", "O",
       "P", "Q", "R", "S", "T", "U", "V", "W", "X", "Y", "Z", "[", "\\", "]", "^", "_",
       "grave", "a", "b", "c", "d", "e", "f", "g", "h", "i", "j", "k", "l", "m", "n", "o",
       "p", "q", "r", "s", "t", "u", "v", "w", "x", "y", "z", "{", "|", "}", "~" >>

Chars == {Ascii[i] : i \in 1..Len(Ascii)}

\* The UTF-16 code unit of a character.
CodeUnit == [c \in Chars |-> 31 + (CHOOSE i \in 1..Len(Ascii) : Ascii[i] = c)]

Digits == <<"0", "1", "2", "3", "4", "5", "6", "7", "8", "9">>

IsDigit(c) == CodeUnit[c] >= 48 /\ CodeUnit[c] <= 57

DigitValue(c) == CodeUnit[c] - 48

\* The decimal text of a non-negative integer.
RECURSIVE Dec(_)
Dec(n) == IF n < 10 THEN <<Digits[n + 1]>> ELSE Dec(n \div 10) \o <<Digits[(n % 10) + 1]>>

\* String.prototype.toLowerCase on one character, then on a string.
LowerChar == [c \in Chars |->
    IF CodeUnit[c] >= 65 /\ CodeUnit[c] <= 90 THEN Ascii[CodeUnit[c] + 32 - 31] ELSE c]

ToLowerCase(s) == [i \in 1..Len(s) |-> LowerChar[s[i]]]

\* s < t in the order of the code units, as the relational comparison of two
\* strings computes it.
RECURSIVE StringLess(_, _)
StringLess(s, t) ==
    IF t = <<>> THEN FALSE
    ELSE IF s = <<>> THEN TRUE
    ELSE IF CodeUnit[Head(s)] # CodeUnit[Head(t)] THEN CodeUnit[Head(s)] < CodeUnit[Head(t)]
    ELSE StringLess(Tail(s), Tail(t))

\* A string of characters as one TLA+ string.
RECURSIVE Text(_)
Text(s) == IF s = <<>> THEN "" ELSE Head(s) \o Text(Tail(s))

(***************************************************************************)
(* JavaScript values                                                       *)
(*                                                                         *)
(* A number is kept in tenths (5 is 0.5, 7300 is 730), which covers the    *)
(* integers and the one-decimal amounts and rates the endpoints take.      *)
(* An object is the sequence of its <<key, value>> entries in insertion    *)
(* order, keys distinct.                                                   *)
(***************************************************************************)

JsUndefined == [type |-> "undefined", str |-> <<>>, num |-> 0, items |-> <<>>]
JsNull == [type |-> "null", str |-> <<>>, num |-> 0, items |-> <<>>]
JsString(s) == [type |-> "string", str |-> s, num |-> 0, items |-> <<>>]
JsTenths(t) == [type |-> "number", str |-> <<>>, num |-> t, items |-> <<>>]
JsNumber(n) == JsTenths(10 * n)
JsBoolean(b) == [type |-> "boolean", str |-> <<>>, num |-> IF b THEN 1 ELSE 0, items |-> <<>>]
JsArray(xs) == [type |-> "array", str |-> <<>>, num |-> 0, items |-> xs]
JsObject(es) == [type |-> "object", str |-> <<>>, num |-> 0, items |-> es]

\* The typeof operator.
TypeOf(v) ==
    IF v.type \in {"null", "array", "object"} THEN "object" ELSE v.type

\* ToBoolean, as the `!x` of the argument checks applies it.
Truthy(v) ==
    CASE v.type \in {"undefined", "null"} -> FALSE
      [] v.type = "string" -> v.str # <<>>
      [] v.type = "number" -> v.num # 0
      [] v.type = "boolean" -> v.num = 1
      [] OTHER -> TRUE

\* Number::toString for a number held in tenths.
NumberToString(t) ==
    Dec(t \div 10) \o (IF t % 10 = 0 THEN <<>> ELSE <<".", Digits[(t % 10) + 1]>>)

ObjectObject == <<"[", "o", "b", "j", "e", "c", "t", " ", "O", "b", "j", "e", "c", "t", "]">>

RECURSIVE JsToString(_)
RECURSIVE ArrayJoin(_)

\* Array.prototype.join(","): null and undefined elements give the empty string.
ArrayJoin(xs) ==
    IF xs = <<>> THEN <<>>
    ELSE LET first == IF Head(xs).type \in {"undefined", "null"} THEN <<>>
                      ELSE JsToString(Head(xs))
         IN IF Len(xs) = 1 THEN first ELSE first \o <<",">> \o ArrayJoin(Tail(xs))

\* ToString, as `stringData += value` and the default sort apply it.
JsToString(v) ==
    CASE v.type = "string" -> v.str
      [] v.type = "number" -> NumberToString(v.num)
      [] v.type = "boolean" -> IF v.num = 1 THEN <<"t", "r", "u", "e">>
                                           ELSE <<"f", "a", "l", "s", "e">>
      [] v.type = "null" -> <<"n", "u", "l", "l">>
      [] v.type = "undefined" -> <<"u", "n", "d", "e", "f", "i", "n", "e", "d">>
      [] v.type = "array" -> ArrayJoin(v.items)
      [] OTHER -> ObjectObject

(***************************************************************************)
(* Objects: property order, Object.entries, sort, Object.fromEntries       *)
(***************************************************************************)

\* A key is an array index when it is the canonical decimal text of an integer
\* (below 2^32 - 1, which every key of the lengths used here is).
IsArrayIndex(k) ==
    /\ k # <<>>
    /\ \A i \in 1..Len(k) : IsDigit(k[i])
    /\ (Len(k) = 1 \/ k[1] # "0")

RECURSIVE KeyNumber(_)
KeyNumber(k) ==
    IF k = <<>> THEN 0
    ELSE 10 * KeyNumber(SubSeq(k, 1, Len(k) - 1)) + DigitValue(k[Len(k)])

\* The entries whose keys are array indices, in ascending numeric order.
RECURSIVE IndexEntries(_)
IndexEntries(es) ==
    IF es = <<>> THEN <<>>
    ELSE LET idx == {i \in 1..Len(es) : IsArrayIndex(es[i][1])}
         IN IF idx = {} THEN <<>>
            ELSE LET m == CHOOSE i \in idx :
                              \A j \in idx : KeyNumber(es[i][1]) <= KeyNumber(es[j][1])
                 IN <<es[m]>> \o IndexEntries([i \in 1..(Len(es) - 1) |->
                                                  IF i < m THEN es[i] ELSE es[i + 1]])

\* OrdinaryOwnPropertyKeys: array indices first, in ascending numeric order,
\* then the other keys in the order they were created.
OwnPropertyOrder(obj) ==
    IndexEntries(obj) \o SelectSeq(obj, LAMBDA e : ~IsArrayIndex(e[1]))

\* Object.entries(data)
ObjectEntries(obj) == OwnPropertyOrder(obj)

\* Object.values(data)
ObjectValues(obj) ==
    LET es == OwnPropertyOrder(obj) IN [i \in 1..Len(es) |-> es[i][2]]

\* What the default sort compares: the entry <<key, value>>, itself an array,
\* converted to a string, that is key "," value with an absent value empty.
EntryString(e) == ArrayJoin(<<JsString(e[1]), e[2]>>)

\* SortCompare with no comparefn: -1, 0 or 1 from the two strings.
SortCompare(x, y) ==
    IF StringLess(EntryString(x), EntryString(y)) THEN -1
    ELSE IF StringLess(EntryString(y), EntryString(x)) THEN 1
    ELSE 0

\* Insert x after every element that does not sort after it (stable).
RECURSIVE SortInsert(_, _)
SortInsert(sorted, x) ==
    IF sorted = <<>> THEN <<x>>
    ELSE IF SortCompare(x, sorted[Len(sorted)]) >= 0 THEN Append(sorted, x)
    ELSE Append(SortInsert(SubSeq(sorted, 1, Len(sorted) - 1), x), sorted[Len(sorted)])

\* Array.prototype.sort() with no comparefn; the sort is stable.
RECURSIVE ArraySort(_)
ArraySort(es) ==
    IF es = <<>> THEN <<>>
    ELSE SortInsert(ArraySort(SubSeq(es, 1, Len(es) - 1)), es[Len(es)])

\* Object.fromEntries: each entry defines its key; a key seen before keeps its
\* place and takes the new value.
RECURSIVE ObjectFromEntries(_)
ObjectFromEntries(es) ==
    IF es = <<>> THEN <<>>
    ELSE LET before == ObjectFromEntries(SubSeq(es, 1, Len(es) - 1))
             last == es[Len(es)]
         IN IF \E i \in 1..Len(before) : before[i][1] = last[1]
            THEN [i \in 1..Len(before) |->
                     IF before[i][1] = last[1] THEN last ELSE before[i]]
            ELSE Append(before, last)

(***************************************************************************)
(* #generateSignature                                                      *)
(***************************************************************************)

\* HMAC-SHA512 in hex, kept symbolic: the digest stands for its key and message.
HmacSha512Hex(key, message) == [key |-> key, message |-> message]

\* const sortedData = Object.fromEntries(Object.entries(data).sort())
sortedData(data) == ObjectFromEntries(ArraySort(ObjectEntries(data)))

\* The test without its `value === null` part: null is typeof 'object', but a
\* test on the type names alone could leave it out.
SkippedUnlessNull(value) ==
    value.type \in {"array", "object", "undefined"}

\* The test of the loop body that skips a value.
Skipped(value) ==
    TypeOf(value) \in {"array", "object", "undefined"} \/ value.type = "null"

\* What one value adds to stringData.
Appended(value) ==
    IF Skipped(value) THEN <<>>
    ELSE IF TypeOf(value) = "boolean"
         THEN (IF value.num = 1 THEN <<"t", "r", "u", "e">> ELSE <<"f", "a", "l", "s", "e">>)
         ELSE JsToString(value)

RECURSIVE ConcatValues(_)
ConcatValues(values) ==
    IF values = <<>> THEN <<>>
    ELSE Appended(Head(values)) \o ConcatValues(Tail(values))

\* stringData after the loop over Object.values(sortedData): the canonical string.
stringData(data) == ConcatValues(ObjectValues(sortedData(data)))

\* #generateSignature(data), with `timestamp` the value its Date.now() returned.
generateSignature(secretKey, data, timestamp) ==
    HmacSha512Hex(secretKey, ToLowerCase(stringData(data) \o NumberToString(10 * timestamp)))

(***************************************************************************)
(* JSON.stringify and qs.stringify                                         *)
(***************************************************************************)

\* A string literal of JSON: quotes and backslashes escaped.
RECURSIVE JsonEscape(_)
JsonEscape(s) ==
    IF s = <<>> THEN <<>>
    ELSE (IF Head(s) \in {"\"", "\\"} THEN <<"\\", Head(s)>> ELSE <<Head(s)>>)
         \o JsonEscape(Tail(s))

RECURSIVE JSONStringify(_)
RECURSIVE JsonElements(_)
RECURSIVE JsonMembers(_, _)

\* The elements of an array: an undefined element is written null.
JsonElements(xs) ==
    IF xs = <<>> THEN <<>>
    ELSE (IF Head(xs).type = "undefined" THEN <<"n", "u", "l", "l">>
          ELSE JSONStringify(Head(xs)))
         \o (IF Len(xs) = 1 THEN <<>> ELSE <<",">> \o JsonElements(Tail(xs)))

\* The members of an object: a member whose value is undefined is left out.
JsonMembers(es, first) ==
    IF es = <<>> THEN <<>>
    ELSE IF Head(es)[2].type = "undefined" THEN JsonMembers(Tail(es), first)
    ELSE (IF first THEN <<>> ELSE <<",">>)
         \o <<"\"">> \o JsonEscape(Head(es)[1]) \o <<"\"", ":">>
         \o JSONStringify(Head(es)[2])
         \o JsonMembers(Tail(es), FALSE)

\* JSON.stringify(value), for a value that is not undefined.
JSONStringify(v) ==
    CASE v.type = "string" -> <<"\"">> \o JsonEscape(v.str) \o <<"\"">>
      [] v.type = "array" -> <<"[">> \o JsonElements(v.items) \o <<"]">>
      [] v.type = "object" -> <<"{">> \o JsonMembers(OwnPropertyOrder(v.items), TRUE) \o <<"}">>
      [] OTHER -> JsToString(v)

HexDigits == <<"0", "1", "2", "3", "4", "5", "6", "7", "8", "9", "A", "B", "C", "D", "E", "F">>

\* The characters percent-encoding leaves alone: letters, digits, - . _ ~
Unreserved(c) ==
    \/ IsDigit(c)
    \/ (CodeUnit[c] >= 65 /\ CodeUnit[c] <= 90)
    \/ (CodeUnit[c] >= 97 /\ CodeUnit[c] <= 122)
    \/ c \in {"-", ".", "_", "~"}

\* qs's encoder (encode: true), on a string of ASCII characters.
RECURSIVE UrlEncode(_)
UrlEncode(s) ==
    IF s = <<>> THEN <<>>
    ELSE (IF Unreserved(Head(s)) THEN <<Head(s)>>
          ELSE <<"%", HexDigits[(CodeUnit[Head(s)] \div 16) + 1],
                       HexDigits[(CodeUnit[Head(s)] % 16) + 1]>>)
         \o UrlEncode(Tail(s))

\* The key=value pairs one entry of the params gives: none for null (skipNulls)
\* and undefined, those of each element under key[] for an array (arrayFormat:
\* 'brackets'), those of each own property under key[sub] for an object, in
\* own property order, one pair otherwise.
RECURSIVE QsPairs(_, _)
QsPairs(key, v) ==
    CASE v.type \in {"undefined", "null"} -> <<>>
      [] v.type = "array" ->
            IF v.items = <<>> THEN <<>>
            ELSE QsPairs(key \o <<"[", "]">>, Head(v.items))
                 \o QsPairs(key, JsArray(Tail(v.items)))
      [] v.type = "object" ->
            LET es == OwnPropertyOrder(v.items)
            IN IF es = <<>> THEN <<>>
               ELSE QsPairs(key \o <<"[">> \o es[1][1] \o <<"]">>, es[1][2])
                    \o QsPairs(key, JsObject(Tail(es)))
      [] OTHER -> <<UrlEncode(key) \o <<"=">> \o UrlEncode(JsToString(v))>>

RECURSIVE QsAllPairs(_)
QsAllPairs(es) ==
    IF es = <<>> THEN <<>> ELSE QsPairs(Head(es)[1], Head(es)[2]) \o QsAllPairs(Tail(es))

RECURSIVE JoinWith(_, _)
JoinWith(parts, sep) ==
    IF parts = <<>> THEN <<>>
    ELSE IF Len(parts) = 1 THEN Head(parts)
    ELSE Head(parts) \o sep \o JoinWith(Tail(parts), sep)

\* qs.stringify(params, { arrayFormat: 'brackets', encode: true, skipNulls: true })
QsStringify(params) == JoinWith(QsAllPairs(OwnPropertyOrder(params)), <<"&">>)

(***************************************************************************)
(* Property names and the literals of the source                           *)
(***************************************************************************)

key_deposit_id == <<"d", "e", "p", "o", "s", "i", "t", "_", "i", "d">>
key_steam_id == <<"s", "t", "e", "a", "m", "_", "i", "d">>
key_trade_url == <<"t", "r", "a", "d", "e", "_", "u", "r", "l">>
key_min_amount == <<"m", "i", "n", "_", "a", "m", "o", "u", "n", "t">>
key_result_url == <<"r", "e", "s", "u", "l", "t", "_", "u", "r", "l">>
key_fail_url == <<"f", "a", "i", "l", "_", "u", "r", "l">>
key_success_url == <<"s", "u", "c", "c", "e", "s", "s", "_", "u", "r", "l">>
key_priority_game == <<"p", "r", "i", "o", "r", "i", "t", "y", "_", "g", "a", "m", "e">>
key_app_id == <<"a", "p", "p", "_", "i", "d">>
key_trade_id == <<"t", "r", "a", "d", "e", "_", "i", "d">>
key_item_array == <<"i", "t", "e", "m", "_", "a", "r", "r", "a", "y">>
key_start_date == <<"s", "t", "a", "r", "t", "_", "d", "a", "t", "e">>
key_end_date == <<"e", "n", "d", "_", "d", "a", "t", "e">>
key_coin_rate == <<"c", "o", "i", "n", "_", "r", "a", "t", "e">>
key_refresh == <<"r", "e", "f", "r", "e", "s", "h">>
key_id == <<"i", "d">>
key_name == <<"n", "a", "m", "e">>
key_tradeUrl == <<"t", "r", "a", "d", "e", "U", "r", "l">>
key_internal_ids == <<"i", "n", "t", "e", "r", "n", "a", "l", "_", "i", "d", "s">>
key_trade_ids == <<"t", "r", "a", "d", "e", "_", "i", "d", "s">>
key_baseURL == <<"b", "a", "s", "e", "U", "R", "L">>
key_resultUrl == <<"r", "e", "s", "u", "l", "t", "U", "r", "l">>
key_failUrl == <<"f", "a", "i", "l", "U", "r", "l">>
key_successUrl == <<"s", "u", "c", "c", "e", "s", "s", "U", "r", "l">>
key_priorityGame == <<"p", "r", "i", "o", "r", "i", "t", "y", "G", "a", "m", "e">>
key_versionApi == <<"v", "e", "r", "s", "i", "o", "n", "A", "p", "i">>
key_timeout == <<"t", "i", "m", "e", "o", "u", "t">>
key_error == <<"e", "r", "r", "o", "r">>
key_url == <<"u", "r", "l">>

\* 'https://skinvend.io', 'v1' and '' (lines 36-41)
DefaultBaseURL == JsString(<<"h", "t", "t", "p", "s", ":", "/", "/", "s", "k", "i", "n", "v", "e", "n", "d", ".", "i", "o">>)
DefaultVersion == JsString(<<"v", "1">>)
EmptyString == JsString(<<>>)

\* obj[key], undefined when the object has no such property.
Get(obj, key) ==
    IF \E i \in 1..Len(obj) : obj[i][1] = key
    THEN obj[CHOOSE i \in 1..Len(obj) : obj[i][1] = key][2]
    ELSE JsUndefined

\* a || b
Or(a, b) == IF Truthy(a) THEN a ELSE b

\* new Error(message) and the ReferenceError of an undeclared identifier.
Error(message) == [name |-> "Error", message |-> message]
ReferenceError(identifier) ==
    [name |-> "ReferenceError", message |-> identifier \o " is not defined"]

(***************************************************************************)
(* Bounds and inputs                                                       *)
(***************************************************************************)

MaxCalls == 2       \* endpoint calls made on the instance
MaxTicks == 2       \* milliseconds the clock may advance
StartTime == 1000   \* Date.now() when the program starts

\* The values Date.now() may return when the last read returned c: the clock
\* has not moved, or it has moved on by a millisecond.
Now(c) == {t \in {c, c + 1} : t <= StartTime + MaxTicks}

\* Credentials handed to the constructor.
KeyInputs == {JsUndefined, EmptyString, JsString(<<"K", "1">>)}
SecretInputs == {JsUndefined, EmptyString, JsString(<<"s", "3", "c", "r", "3", "t">>)}
\* The options object handed to the constructor.
OptionInputs == { <<>>, << <<key_priorityGame, JsNumber(570)>> >> }

\* An identifier argument: left out, or given.
IdInputs(text) == {JsUndefined, JsString(text)}
\* A date argument: left out, or a unix time.
DateInputs == {JsUndefined, JsNumber(1711354)}
\* An array-of-identifiers argument.
IdsInputs(text) == {JsUndefined, JsArray(<<JsString(text)>>)}

\* What the service may answer.
Statuses == {200, 422}
PayloadOk == JsObject(<< <<key_url, JsString(<<"u">>)>>, <<key_trade_id, JsString(<<"T", "1">>)>> >>)
PayloadError == JsObject(<< <<key_error, JsString(<<"b", "a", "d", "_", "a", "m", "o", "u", "n", "t">>)>> >>)
Payloads == {PayloadOk, PayloadError}

(***************************************************************************)
(* The constructor                                                         *)
(***************************************************************************)

NoHeaders == [apiKey |-> <<>>, XTimestamp |-> <<>>, XSignature |-> <<>>]

Init ==
    /\ inst = <<>>
    /\ ctorError = <<>>
    /\ headers = NoHeaders
    /\ clock = StartTime
    /\ calls = <<>>
    /\ wire = <<>>
    /\ sigData = <<>>
    /\ sigOther = <<>>
    /\ sigOut = <<>>

\* The fields the constructor assigns (lines 34-42) and what it hands to
\* axios.create (lines 45-47).
NewInstance(apiKey, secretKey, options) ==
    LET baseURL == Or(Get(options, key_baseURL), DefaultBaseURL)
        version == Or(Get(options, key_versionApi), DefaultVersion)
        timeout == Or(Get(options, key_timeout), JsNumber(10000))
    IN [apiKey |-> apiKey,
        secretKey |-> secretKey,
        baseURL |-> baseURL,
        resultUrl |-> Or(Get(options, key_resultUrl), EmptyString),
        failUrl |-> Or(Get(options, key_failUrl), EmptyString),
        successUrl |-> Or(Get(options, key_successUrl), EmptyString),
        priorityGame |-> Or(Get(options, key_priorityGame), JsNumber(730)),
        version |-> version,
        timeout |-> timeout,
        clientBaseURL |-> JsToString(baseURL) \o <<"/">> \o JsToString(version)
                              \o <<"/", "a", "p", "i">>,
        clientTimeout |-> timeout]

\* new SkinvedAPI(apiKey, secretKey, options)
Construct ==
    /\ inst = <<>>
    /\ ctorError = <<>>
    /\ \E apiKey \in KeyInputs, secretKey \in SecretInputs, options \in OptionInputs :
         IF ~Truthy(apiKey)
         THEN /\ ctorError' = <<Error("API key is required")>>
              /\ UNCHANGED <<inst, headers>>
         ELSE IF ~Truthy(secretKey)
         THEN /\ ctorError' = <<Error("Secret Key is required")>>
              /\ UNCHANGED <<inst, headers>>
         ELSE /\ inst' = <<NewInstance(apiKey, secretKey, options)>>
              /\ headers' = [NoHeaders EXCEPT !.apiKey = <<apiKey>>]
              /\ UNCHANGED ctorError
    /\ UNCHANGED <<clock, calls, wire, sigData, sigOther, sigOut>>

this == inst[1]

(***************************************************************************)
(* The shared axios instance: requests, the params serializer, the         *)
(* response interceptor                                                    *)
(***************************************************************************)

\* A call before it has done anything. args are the arguments it was given,
\* signed the signings it has run, outcome what became of its exchange; the
\* rest is what the code holds: the request config, the response or the error
\* the client's promise settled with, and the value returned.
NewCall(op) ==
    [op |-> op, args |-> <<>>, pc |-> "start", req |-> <<>>, signed |-> <<>>,
     outcome |-> <<>>, response |-> <<>>, error |-> <<>>, value |-> <<>>]

\* One execution of the two signing statements, as the call that ran them saw
\* it: the value stored in X-Timestamp, the timestamp #generateSignature read
\* for itself, the signature and the parameters it was computed over.
Signing(stamp, timestamp, data) ==
    [XTimestamp |-> stamp, timestamp |-> timestamp, data |-> data,
     XSignature |-> generateSignature(this.secretKey.str, data, timestamp)]

\* The two slots set by replacing the headers object with one that holds only
\* them, which drops the static apiKey header.
SetHeaderSlotsReplacing(h, signing) ==
    [apiKey |-> <<>>,
     XTimestamp |-> <<signing.XTimestamp>>,
     XSignature |-> <<signing.XSignature>>]

\* this.client.defaults.headers['X-Timestamp'] = Date.now();
\* this.client.defaults.headers['X-Signature'] = this.#generateSignature(params);
SetHeaderSlots(h, signing) ==
    [h EXCEPT !.XTimestamp = <<signing.XTimestamp>>, !.XSignature = <<signing.XSignature>>]

\* The config of one request: axios merges defaults.headers into it when
\* client.get / post / patch is called, so it holds the slots as they are then.
RequestConfig(method, url, data, params, h) ==
    [method |-> method, url |-> url, data |-> data, params |-> params, headers |-> h]

\* What became of an exchange: "response" with a status and a payload,
\* "noResponse" when nothing came back, "notSent" when nothing went out.
Outcome(kind, status, data, message) ==
    [kind |-> kind, status |-> status, data |-> data, message |-> message]

\* The error axios rejects with: with a response (status outside 2xx), with a
\* request only (nothing came back), or with neither (nothing was sent).
AxiosError(response, request, message) ==
    [response |-> response, request |-> request, message |-> message]

\* validateStatus of axios: 2xx resolves.
ValidateStatus(status) == status >= 200 /\ status < 300

\* The interceptor with its first two tests in the other order: an error that
\* has a response has a request too, so it is reported as no response.
InterceptorRequestFirst(error) ==
    IF error.request
    THEN Error("SkinVend API Error: No response received")
    ELSE IF error.response # <<>>
    THEN Error("SkinVend API Error: " \o Text(NumberToString(10 * error.response[1].status))
               \o " - " \o Text(JSONStringify(error.response[1].data)))
    ELSE Error("SkinVend API Error: " \o error.message)

\* The rejection handler of the response interceptor (lines 57-65): the Error
\* it throws.
Interceptor(error) ==
    IF error.response # <<>>
    THEN Error("SkinVend API Error: " \o Text(NumberToString(10 * error.response[1].status))
               \o " - " \o Text(JSONStringify(error.response[1].data)))
    ELSE IF error.request
    THEN Error("SkinVend API Error: No response received")
    ELSE Error("SkinVend API Error: " \o error.message)

\* An endpoint that throws before it calls the client.
Throw(op, args, error) ==
    /\ calls' = Append(calls, [NewCall(op) EXCEPT
                   !.args = args, !.pc = "threw", !.error = <<error>>])
    /\ UNCHANGED <<headers, clock, wire>>

\* The two signing statements followed by client.post / client.patch.
SignedRequest(op, args, method, url, params) ==
    \E stamp \in Now(clock) : \E timestamp \in Now(stamp) :
        LET signing == Signing(stamp, timestamp, params)
            h == SetHeaderSlots(headers, signing)
        IN /\ headers' = h
           /\ clock' = timestamp
           /\ calls' = Append(calls, [NewCall(op) EXCEPT
                          !.args = args,
                          !.pc = "queued",
                          !.signed = <<signing>>,
                          !.req = <<RequestConfig(method, url, <<params>>, <<>>, h)>>])
           /\ UNCHANGED wire

\* client.get(url, { params }) and client.get(url): nothing is signed here.
GetRequest(op, args, url, params) ==
    /\ calls' = Append(calls, [NewCall(op) EXCEPT
                   !.args = args,
                   !.pc = "queued",
                   !.req = <<RequestConfig("get", url, <<>>, params, headers)>>])
    /\ UNCHANGED <<headers, clock, wire>>

CanCall == inst # <<>> /\ Len(calls) < MaxCalls

Frame == UNCHANGED <<inst, ctorError, sigData, sigOther, sigOut>>

(***************************************************************************)
(* The endpoint methods, up to their first await                           *)
(***************************************************************************)

\* A parameter with a default value takes it when the argument is undefined.
Default(arg, value) == IF arg.type = "undefined" THEN value ELSE arg

CreateDeposit ==
    /\ CanCall
    /\ \E deposit_id \in IdInputs(<<"D", "1">>) :
         LET steam_id == Default(JsUndefined, JsNull)
             trade_url == Default(JsUndefined, EmptyString)
             min_amount == Default(JsUndefined, JsTenths(5))
             params == << <<key_deposit_id, deposit_id>>,
                          <<key_steam_id, steam_id>>,
                          <<key_trade_url, trade_url>>,
                          <<key_min_amount, min_amount>>,
                          <<key_result_url, this.resultUrl>>,
                          <<key_fail_url, this.failUrl>>,
                          <<key_success_url, this.successUrl>>,
                          <<key_priority_game, this.priorityGame>> >>
         IN IF ~Truthy(deposit_id)
            THEN Throw("CreateDeposit", <<deposit_id>>, Error("Deposit ID is required"))
            ELSE SignedRequest("CreateDeposit", <<deposit_id>>, "post", "deposit", params)
    /\ Frame

CreateOffer ==
    /\ CanCall
    /\ \E deposit_id \in IdInputs(<<"D", "1">>) :
         LET steam_id == Default(JsUndefined, JsNull)
             DepositParams == << <<key_deposit_id, deposit_id>>,
                                 <<key_steam_id, steam_id>> >>
         IN IF ~Truthy(deposit_id)
            THEN Throw("CreateOffer", <<deposit_id>>, Error("Deposit ID is required"))
            ELSE SignedRequest("CreateOffer", <<deposit_id>>, "post", "deposit", DepositParams)
    /\ Frame

GetStatusDeposit ==
    /\ CanCall
    /\ \E trade_id \in IdInputs(<<"T", "1">>) :
         IF ~Truthy(trade_id)
         THEN Throw("GetStatusDeposit", <<trade_id>>, Error("Trade ID is required"))
         ELSE GetRequest("GetStatusDeposit", <<trade_id>>, "deposit/status",
                         << << <<key_trade_id, trade_id>> >> >>)
    /\ Frame

GetHistoryDeposits ==
    /\ CanCall
    /\ \E start_date \in DateInputs, end_date \in DateInputs :
         IF ~Truthy(start_date) \/ ~Truthy(end_date)
         THEN Throw("GetHistoryDeposits", <<start_date, end_date>>,
                    Error("Date (start_date | end_date) is required"))
         ELSE GetRequest("GetHistoryDeposits", <<start_date, end_date>>, "deposit/history",
                         << << <<key_start_date, start_date>>, <<key_end_date, end_date>> >> >>)
    /\ Frame

GetSkinsDeposit ==
    /\ CanCall
    /\ \E trade_id \in IdInputs(<<"T", "1">>) :
         IF ~Truthy(trade_id)
         THEN Throw("GetSkinsDeposit", <<trade_id>>, Error("Trade ID is required"))
         ELSE GetRequest("GetSkinsDeposit", <<trade_id>>, "inventory",
                         << << <<key_trade_id, trade_id>> >> >>)
    /\ Frame

GetProjectBalance ==
    /\ CanCall
    /\ GetRequest("GetProjectBalance", <<>>, "project/balance", <<>>)
    /\ Frame

SetProjectRate ==
    /\ CanCall
    /\ \E coin_rate \in {JsTenths(6)} :
         SignedRequest("SetProjectRate", <<coin_rate>>, "patch", "project/balance",
                       << <<key_coin_rate, coin_rate>> >>)
    /\ Frame

GetClientSteamInvetory ==
    /\ CanCall
    /\ \E steam_id \in IdInputs(<<"S", "1">>) :
         LET refresh == Default(JsUndefined, JsBoolean(FALSE))
             app_id == Default(JsUndefined, this.priorityGame)
         IN IF ~Truthy(steam_id)
            THEN Throw("GetClientSteamInvetory", <<steam_id>>, Error("SteamID is required"))
            ELSE GetRequest("GetClientSteamInvetory", <<steam_id>>, "inventory",
                            << << <<key_app_id, app_id>>,
                                  <<key_steam_id, steam_id>>,
                                  <<key_refresh, refresh>> >> >>)
    /\ Frame

SearchSkins ==
    /\ CanCall
    /\ \E given \in {JsUndefined, JsNull} :
         LET app_id == Default(given, this.priorityGame)
             id == Default(JsUndefined, JsNull)
             name == Default(JsUndefined, JsNull)
         IN IF ~Truthy(app_id)
            THEN Throw("SearchSkins", <<given>>, Error("Deposit ID is required"))
            ELSE GetRequest("SearchSkins", <<given>>, "items/search",
                            << << <<key_app_id, app_id>>, <<key_id, id>>,
                                  <<key_name, name>> >> >>)
    /\ Frame

CheckBotStatus ==
    /\ CanCall
    /\ \E tradeUrl \in IdInputs(<<"u", "?", "p">>) :
         IF ~Truthy(tradeUrl)
         THEN Throw("CheckBotStatus", <<tradeUrl>>, Error("Deposit ID is required"))
         ELSE GetRequest("CheckBotStatus", <<tradeUrl>>, "check-user-ability",
                         << << <<key_tradeUrl, tradeUrl>> >> >>)
    /\ Frame

\* The first statement of BuySkin reads trade_id, which is no parameter and no
\* variable in scope: the read throws a ReferenceError whatever the arguments,
\* and the statements after it (lines 275-290) are never reached.
BuySkin ==
    /\ CanCall
    /\ \E internal_id \in IdInputs(<<"I", "1">>) :
         LET partner == JsString(<<"P", "1">>)
             partner_token == JsString(<<"K", "1">>)
         IN Throw("BuySkin", <<internal_id, partner, partner_token>>,
                  ReferenceError("trade_id"))
    /\ Frame

PurchaseStatus ==
    /\ CanCall
    /\ \E internal_ids \in IdsInputs(<<"I", "1">>), trade_ids \in IdsInputs(<<"T", "1">>) :
         IF ~Truthy(internal_ids) \/ ~Truthy(trade_ids)
         THEN Throw("PurchaseStatus", <<internal_ids, trade_ids>>,
                    Error("trade_ids | trade_ids is required"))
         ELSE GetRequest("PurchaseStatus", <<internal_ids, trade_ids>>, "withdraw/status",
                         << << <<key_internal_ids, internal_ids>>,
                               <<key_trade_ids, trade_ids>> >> >>)
    /\ Frame

PurchaseHistory ==
    /\ CanCall
    /\ \E start_date \in DateInputs, end_date \in DateInputs :
         IF ~Truthy(start_date) \/ ~Truthy(end_date)
         THEN Throw("PurchaseHistory", <<start_date, end_date>>,
                    Error("start_date | end_date is required"))
         ELSE GetRequest("PurchaseHistory", <<start_date, end_date>>, "withdraw/history",
                         << << <<key_start_date, start_date>>, <<key_end_date, end_date>> >> >>)
    /\ Frame

(***************************************************************************)
(* Dispatch, the answer of the service, and the rest of each method        *)
(***************************************************************************)

\* The calls other than i that are between their start and their return.
InProgress(i) ==
    {j \in 1..Len(calls) :
        j # i /\ calls[j].pc \in {"queued", "inflight", "fulfilled", "rejected"}}

\* What goes out for a request config: the body is the JSON text of data, the
\* query is what the params serializer returned; params is the parameter set
\* the call sends, whichever way, and others the calls in progress at that
\* moment.
Transmitted(i, req, query) ==
    [call |-> i, others |-> InProgress(i), method |-> req.method, url |-> req.url,
     body |-> IF req.data = <<>> THEN <<>> ELSE JSONStringify(JsObject(req.data[1])),
     query |-> query,
     params |-> IF req.data # <<>> THEN req.data[1]
                ELSE IF req.params # <<>> THEN req.params[1] ELSE <<>>,
     headers |-> req.headers]

\* dispatchRequest, a microtask after client.get / post / patch returned: the
\* request cannot be built (nothing is sent, the interceptor gets an error with
\* neither response nor request), or the URL is built, which runs
\* paramsSerializer when the config has params, and the request is sent with the
\* headers of its config.
Dispatch(i) ==
    /\ calls[i].pc = "queued"
    /\ LET req == calls[i].req[1]
       IN \/ /\ calls' = [calls EXCEPT
                    ![i].pc = "rejected",
                    ![i].outcome = <<Outcome("notSent", 0, JsUndefined, "Invalid URL")>>,
                    ![i].error = <<Interceptor(AxiosError(<<>>, FALSE, "Invalid URL"))>>]
             /\ UNCHANGED <<headers, clock, wire>>
          \/ /\ req.params = <<>>
             /\ wire' = Append(wire, Transmitted(i, req, <<>>))
             /\ calls' = [calls EXCEPT ![i].pc = "inflight"]
             /\ UNCHANGED <<headers, clock>>
          \/ /\ req.params # <<>>
             /\ \E stamp \in Now(clock) : \E timestamp \in Now(stamp) :
                  LET signing == Signing(stamp, timestamp, req.params[1])
                  IN /\ headers' = SetHeaderSlots(headers, signing)
                     /\ clock' = timestamp
                     /\ calls' = [calls EXCEPT
                            ![i].pc = "inflight",
                            ![i].signed = Append(@, signing)]
             /\ wire' = Append(wire, Transmitted(i, req, QsStringify(req.params[1])))
    /\ Frame

\* The exchange ends: a response with some status and payload, which axios
\* resolves when the status is 2xx and rejects otherwise, or no response at all
\* (timeout, connection reset). A rejection goes through the interceptor.
Respond(i) ==
    /\ calls[i].pc = "inflight"
    /\ \/ \E status \in Statuses, data \in Payloads :
            LET response == [status |-> status, data |-> data]
            IN IF ValidateStatus(status)
               THEN calls' = [calls EXCEPT
                        ![i].pc = "fulfilled",
                        ![i].outcome = <<Outcome("response", status, data, "")>>,
                        ![i].response = <<response>>]
               ELSE calls' = [calls EXCEPT
                        ![i].pc = "rejected",
                        ![i].outcome = <<Outcome("response", status, data, "")>>,
                        ![i].error = <<Interceptor(AxiosError(<<response>>, TRUE,
                                          "Request failed with status code "
                                              \o Text(NumberToString(10 * status))))>>]
       \/ calls' = [calls EXCEPT
              ![i].pc = "rejected",
              ![i].outcome = <<Outcome("noResponse", 0, JsUndefined,
                                       "timeout of 10000ms exceeded")>>,
              ![i].error = <<Interceptor(AxiosError(<<>>, TRUE,
                                "timeout of 10000ms exceeded"))>>]
    /\ UNCHANGED <<headers, clock, wire>>
    /\ Frame

\* CreateOffer after its first await (lines 126-137): TradeParams is built and
\* signed into the header slots, then the argument `params` of the second
\* client.post is read; no such variable is in scope, so the read throws a
\* ReferenceError and the second request is never made.
CreateOfferSecondStep(i) ==
    LET data == calls[i].response[1].data
        app_id == Default(JsUndefined, this.priorityGame)
        trade_url == Default(JsUndefined, EmptyString)
        item_array == Default(JsUndefined, JsArray(<<>>))
        TradeParams == << <<key_app_id, app_id>>,
                          <<key_trade_id, Get(data.items, key_trade_id)>>,
                          <<key_trade_url, trade_url>>,
                          <<key_item_array, item_array>> >>
    IN \E stamp \in Now(clock) : \E timestamp \in Now(stamp) :
         LET signing == Signing(stamp, timestamp, TradeParams)
         IN /\ headers' = SetHeaderSlots(headers, signing)
            /\ clock' = timestamp
            /\ calls' = [calls EXCEPT
                   ![i].pc = "threw",
                   ![i].signed = Append(@, signing),
                   ![i].error = <<ReferenceError("params")>>]

\* The method resumes after its await: a rejection of the client's promise is
\* thrown on to the caller as it is; otherwise the method returns the payload
\* (SetProjectRate returns nothing), and CreateOffer goes on to its second step.
Resume(i) ==
    /\ calls[i].pc \in {"fulfilled", "rejected"}
    /\ IF calls[i].pc = "rejected"
       THEN /\ calls' = [calls EXCEPT ![i].pc = "threw"]
            /\ UNCHANGED <<headers, clock>>
       ELSE IF calls[i].op = "CreateOffer"
       THEN CreateOfferSecondStep(i)
       ELSE /\ calls' = [calls EXCEPT
                   ![i].pc = "returned",
                   ![i].value = IF calls[i].op = "SetProjectRate" THEN <<JsUndefined>>
                                ELSE <<calls[i].response[1].data>>]
            /\ UNCHANGED <<headers, clock>>
    /\ UNCHANGED wire
    /\ Frame

DispatchSome == \E i \in 1..Len(calls) : Dispatch(i)
RespondSome == \E i \in 1..Len(calls) : Respond(i)
ResumeSome == \E i \in 1..Len(calls) : Resume(i)

Next ==
    \/ Construct
    \/ CreateDeposit
    \/ CreateOffer
    \/ GetStatusDeposit
    \/ GetHistoryDeposits
    \/ GetSkinsDeposit
    \/ GetProjectBalance
    \/ SetProjectRate
    \/ GetClientSteamInvetory
    \/ SearchSkins
    \/ CheckBotStatus
    \/ BuySkin
    \/ PurchaseStatus
    \/ PurchaseHistory
    \/ DispatchSome
    \/ RespondSome
    \/ ResumeSome

Spec == Init /\ [][Next]_vars

(***************************************************************************)
(* The same client used by a caller that awaits each call before the next  *)
(***************************************************************************)

MaxAwaited == 1     \* calls made one after the other

\* No call is between its start and its return, and another may be made.
MayCallNext ==
    /\ Len(calls) < MaxAwaited
    /\ \A j \in 1..Len(calls) : calls[j].pc \in {"threw", "returned"}

AwaitedNext ==
    \/ Construct
    \/ MayCallNext /\ CreateDeposit
    \/ MayCallNext /\ CreateOffer
    \/ MayCallNext /\ GetStatusDeposit
    \/ MayCallNext /\ GetHistoryDeposits
    \/ MayCallNext /\ GetSkinsDeposit
    \/ MayCallNext /\ GetProjectBalance
    \/ MayCallNext /\ SetProjectRate
    \/ MayCallNext /\ GetClientSteamInvetory
    \/ MayCallNext /\ SearchSkins
    \/ MayCallNext /\ CheckBotStatus
    \/ MayCallNext /\ BuySkin
    \/ MayCallNext /\ PurchaseStatus
    \/ MayCallNext /\ PurchaseHistory
    \/ DispatchSome
    \/ RespondSome
    \/ ResumeSome

SpecAwaited == Init /\ [][AwaitedNext]_vars

(***************************************************************************)
(* The signature generator on its own: any flat mapping as input           *)
(***************************************************************************)

MaxEntries == 3     \* entries of a mapping handed to the generator

\* Keys: a plain name, the same name followed by a comma, and two that are
\* array indices.
SigKeys == {<<"a">>, <<"a", ",">>, <<"2">>, <<"1", "0">>}

\* Values: two strings, and the four kinds the loop skips.
SigValues ==
    {JsString(<<",", "B">>), JsString(<<"B">>), JsNull, JsUndefined,
     JsArray(<<JsNumber(1), JsNumber(2)>>), JsObject(<< <<<<"x">>, JsNumber(1)>> >>)}

HasDistinctKeys(m) == \A i, j \in 1..Len(m) : m[i][1] = m[j][1] => i = j

\* The objects of n entries: every insertion order of n distinct keys.
MappingsOf(n) == {m \in [1..n -> SigKeys \X SigValues] : HasDistinctKeys(m)}

\* The same entries with the i-th and the j-th inserted in each other's place.
Exchanged(m, i, j) ==
    [n \in 1..Len(m) |-> IF n = i THEN m[j] ELSE IF n = j THEN m[i] ELSE m[n]]

\* The values the omission rule names: null, undefined, arrays, nested objects.
Omissible(v) == v.type \in {"null", "undefined", "array", "object"}

\* The mapping with every entry of such a value removed.
WithoutOmissible(m) == SelectSeq(m, LAMBDA e : ~Omissible(e[2]))

SigSecret == <<"s", "3", "c", "r", "3", "t">>

SigInit ==
    /\ inst = <<>>
    /\ ctorError = <<>>
    /\ headers = NoHeaders
    /\ clock = StartTime
    /\ calls = <<>>
    /\ wire = <<>>
    /\ \E n \in 0..MaxEntries : sigData \in MappingsOf(n)
    /\ sigOther = <<>>
    /\ sigOut = <<>>

SigFrame == UNCHANGED <<inst, ctorError, headers, clock, calls, wire>>

\* What #generateSignature computes for a mapping: the canonical string and,
\* with the time it read, the signature.
Signed(data, timestamp) ==
    [canonical |-> stringData(data),
     signature |-> generateSignature(SigSecret, data, timestamp)]

\* The mapping and the same mapping built in another insertion order are both
\* signed, at the same millisecond.
SignReordered ==
    /\ sigOut = <<>>
    /\ \E i, j \in 1..Len(sigData) :
         /\ i < j
         /\ sigOther' = <<[how |-> "reordered", data |-> Exchanged(sigData, i, j)]>>
         /\ sigOut' = <<Signed(sigData, clock), Signed(Exchanged(sigData, i, j), clock)>>
    /\ UNCHANGED sigData
    /\ SigFrame

\* The mapping and the mapping built without the omissible entries are both
\* signed, at the same millisecond.
SignOmitted ==
    /\ sigOut = <<>>
    /\ sigOther' = <<[how |-> "omitted", data |-> WithoutOmissible(sigData)]>>
    /\ sigOut' = <<Signed(sigData, clock), Signed(WithoutOmissible(sigData), clock)>>
    /\ UNCHANGED sigData
    /\ SigFrame

SigNext == SignReordered \/ SignOmitted

SpecSig == SigInit /\ [][SigNext]_vars

(***************************************************************************)
(* Properties                                                              *)
(***************************************************************************)

\* The request w carries the pair of a signing that its own call ran over the
\* parameters w sends.
CarriesOwnPair(w) ==
    /\ w.headers.XTimestamp # <<>>
    /\ w.headers.XSignature # <<>>
    /\ \E k \in 1..Len(calls[w.call].signed) :
         LET s == calls[w.call].signed[k]
         IN /\ s.XTimestamp = w.headers.XTimestamp[1]
            /\ s.XSignature = w.headers.XSignature[1]
            /\ s.data = w.params

\* C1: every request handed to the network carries an X-Timestamp and an
\* X-Signature that a signing step of that same call produced, over exactly the
\* parameters the request sends; never no pair, never the pair of an earlier call.
C1_SentRequestCarriesOwnSignature ==
    \A n \in 1..Len(wire) : CarriesOwnPair(wire[n])

\* C2: the X-Timestamp a request carries is the timestamp that was appended to
\* the canonical string when the X-Signature it carries was computed.
C2_TimestampHeaderIsSignedTimestamp ==
    \A n \in 1..Len(wire) :
        wire[n].headers.XSignature # <<>> =>
            \A i \in 1..Len(calls) : \A k \in 1..Len(calls[i].signed) :
                calls[i].signed[k].XSignature = wire[n].headers.XSignature[1] =>
                    calls[i].signed[k].timestamp = wire[n].headers.XTimestamp[1]

\* C3: a request sent while another call is in progress on the same instance
\* carries the pair computed for its own call.
C3_ConcurrentCallsCarryOwnPair ==
    \A n \in 1..Len(wire) : wire[n].others # {} => CarriesOwnPair(wire[n])

\* The requests call i has sent, in order.
SentBy(i) == SelectSeq(wire, LAMBDA w : w.call = i)

\* C4: once the first POST of CreateOffer has succeeded and the call has gone
\* on, a second request has been sent whose body is the parameter set
\* (app_id, trade_id of the first response, trade_url, item_array) that its own
\* pair was computed over, and the call does not end in an error of its own.
C4_CreateOfferSendsSecondRequest ==
    \A i \in 1..Len(calls) :
        (/\ calls[i].op = "CreateOffer"
         /\ calls[i].response # <<>>
         /\ calls[i].pc # "fulfilled")
        => /\ Len(SentBy(i)) = 2
           /\ CarriesOwnPair(SentBy(i)[2])
           /\ Get(SentBy(i)[2].params, key_trade_id)
                  = Get(calls[i].response[1].data.items, key_trade_id)
           /\ SentBy(i)[2].body = JSONStringify(JsObject(SentBy(i)[2].params))

\* Every argument of the call was given.
AllArgumentsGiven(c) == \A k \in 1..Len(c.args) : Truthy(c.args[k])

\* The parameter set of the request the call handed to the client.
ForwardedParams(c) ==
    IF c.req[1].data # <<>> THEN c.req[1].data[1]
    ELSE IF c.req[1].params # <<>> THEN c.req[1].params[1] ELSE <<>>

\* C5: a call given all of its arguments hands a request to the client whose
\* parameter set holds those arguments; BuySkin(internal_id, partner,
\* partner_token) is such a call.
C5_CompleteCallIsDispatched ==
    \A i \in 1..Len(calls) :
        AllArgumentsGiven(calls[i]) =>
            /\ calls[i].req # <<>>
            /\ \A k \in 1..Len(calls[i].args) :
                 \E e \in 1..Len(ForwardedParams(calls[i])) :
                    ForwardedParams(calls[i])[e][2] = calls[i].args[k]

\* The texts expected for the statuses and payloads the service answers with.
StatusText(status) == IF status = 422 THEN "422" ELSE "200"
PayloadText(data) ==
    IF data = PayloadError THEN "{\"error\":\"bad_amount\"}"
    ELSE "{\"url\":\"u\",\"trade_id\":\"T1\"}"

\* C6: an exchange ends in exactly one of four ways. A response outside 2xx
\* raises the server error with the status and the payload as JSON text; no
\* response raises the no-response error; a request that was not sent raises the
\* transport error with the message; a 2xx response raises nothing and yields
\* the response with its payload.
C6_ErrorMapping ==
    \A i \in 1..Len(calls) :
        (calls[i].outcome # <<>> /\ calls[i].pc \in {"fulfilled", "rejected"}) =>
            LET o == calls[i].outcome[1]
                c == calls[i]
            IN /\ (c.response = <<>>) # (c.error = <<>>)
               /\ (o.kind = "response" /\ o.status \in 200..299) =>
                     /\ c.pc = "fulfilled"
                     /\ c.response = <<[status |-> o.status, data |-> o.data]>>
               /\ (o.kind = "response" /\ o.status \notin 200..299) =>
                     /\ c.pc = "rejected"
                     /\ c.error = <<[name |-> "Error",
                                     message |-> "SkinVend API Error: " \o StatusText(o.status)
                                                 \o " - " \o PayloadText(o.data)]>>
               /\ o.kind = "noResponse" =>
                     /\ c.pc = "rejected"
                     /\ c.error = <<[name |-> "Error",
                                     message |-> "SkinVend API Error: No response received"]>>
               /\ o.kind = "notSent" =>
                     /\ c.pc = "rejected"
                     /\ c.error = <<[name |-> "Error",
                                     message |-> "SkinVend API Error: " \o o.message]>>

\* A 422 with the payload {"error":"bad_amount"} has been turned into its error.
C6_Witness ==
    \E i \in 1..Len(calls) :
        /\ calls[i].pc = "rejected"
        /\ calls[i].outcome = <<Outcome("response", 422, PayloadError, "")>>
        /\ calls[i].error[1].message = "SkinVend API Error: 422 - {\"error\":\"bad_amount\"}"

\* The three normalized errors, for the answers the service may give.
IsNormalizedError(e) ==
    /\ e.name = "Error"
    /\ e.message \in
          {"SkinVend API Error: No response received", "SkinVend API Error: Invalid URL"}
          \cup {"SkinVend API Error: " \o StatusText(st) \o " - " \o PayloadText(d) :
                   st \in Statuses, d \in Payloads}

\* C7: a call that passed its argument check and has ended either returned a
\* value or threw one of the three normalized errors; nothing else escapes.
C7_OnlyNormalizedErrorsEscape ==
    \A i \in 1..Len(calls) :
        calls[i].req # <<>> =>
            /\ calls[i].pc = "threw" => IsNormalizedError(calls[i].error[1])
            /\ calls[i].pc = "returned" => calls[i].value # <<>>

\* The errors of the argument checks: an Error saying what is required.
IsConfigurationError(e) ==
    /\ e.name = "Error"
    /\ e.message \in {"API key is required", "Secret Key is required",
                      "Deposit ID is required", "Trade ID is required",
                      "Date (start_date | end_date) is required", "SteamID is required",
                      "trade_ids | trade_ids is required",
                      "start_date | end_date is required"}

\* A required identifier of the call was left out (SearchSkins has none: its
\* app_id has a default).
MissingRequired(c) ==
    c.op # "SearchSkins" /\ \E k \in 1..Len(c.args) : ~Truthy(c.args[k])

\* C8: a constructor given an empty or missing key throws the configuration
\* error and leaves no instance; an endpoint called without a required
\* identifier throws an error of the same kind, having signed nothing, built no
\* request and sent nothing.
C8_MissingArgumentIsConfigurationError ==
    /\ ctorError # <<>> =>
          inst = <<>> /\ IsConfigurationError(ctorError[1]) /\ wire = <<>>
    /\ inst # <<>> => Truthy(this.apiKey) /\ Truthy(this.secretKey)
    /\ \A i \in 1..Len(calls) :
          MissingRequired(calls[i]) =>
              /\ calls[i].pc = "threw"
              /\ IsConfigurationError(calls[i].error[1])
              /\ calls[i].req = <<>>
              /\ calls[i].signed = <<>>
              /\ SentBy(i) = <<>>

\* C9: a mapping and the same mapping built in another insertion order have the
\* same canonical string and, signed at the same time, the same signature.
C9_InsertionOrderIndependent ==
    (sigOut # <<>> /\ sigOther[1].how = "reordered") =>
        /\ sigOut[1].canonical = sigOut[2].canonical
        /\ sigOut[1].signature = sigOut[2].signature

\* C10: a mapping has the canonical string, and so the signature, of the
\* mapping with its null, undefined, array and object entries removed.
C10_OmissionRule ==
    (sigOut # <<>> /\ sigOther[1].how = "omitted") =>
        /\ sigOut[1].canonical = sigOut[2].canonical
        /\ sigOut[1].signature = sigOut[2].signature

\* Three entries, a string between a null under an earlier key and an array
\* under a later one, have been signed with and without the two.
C10_Witness ==
    /\ sigOut # <<>>
    /\ sigOther[1].how = "omitted"
    /\ Len(sigData) = 3
    /\ Len(sigOther[1].data) = 1
    /\ \E i, j \in 1..3 : sigData[i][2] = JsNull /\ sigData[j][2].type = "array"
    /\ sigOut[1].canonical = <<"B">>

\* Call i, which began in this step or was in progress before it, ran a
\* signing in this step and the header slots now hold that signing's pair.
SignedInThisStep(i) ==
    LET before == IF i > Len(calls) THEN <<>> ELSE calls[i].signed
        after == calls'[i].signed
    IN /\ i > Len(calls) \/ calls[i].pc \in {"queued", "inflight", "fulfilled", "rejected"}
       /\ Len(after) = Len(before) + 1
       /\ headers'.XTimestamp = <<after[Len(after)].XTimestamp>>
       /\ headers'.XSignature = <<after[Len(after)].XSignature>>

\* C11: once the client is constructed no step of any call, successful, failed
\* or rejected by its argument check, changes apiKey, secretKey, base URL,
\* version, timeout, default game, redirect URLs or the static apiKey header;
\* the X-Timestamp / X-Signature slots change only when a call in flight signs.
C11_OnlyHeaderSlotsChange ==
    [][inst # <<>> =>
          /\ inst' = inst
          /\ headers'.apiKey = headers.apiKey
          /\ headers' # headers => \E i \in 1..Len(calls') : SignedInThisStep(i)]_vars

\* A call made on an instance built with options has signed, been answered and
\* returned; the instance still holds what the constructor gave it.
C11_Witness ==
    /\ inst # <<>>
    /\ this.priorityGame = JsNumber(570)
    /\ this.timeout = JsNumber(10000)
    /\ headers.apiKey = <<this.apiKey>>
    /\ headers.XSignature # <<>>
    /\ \E i \in 1..Len(calls) : calls[i].pc = "returned" /\ calls[i].signed # <<>>

\* The entries of a mapping with distinct keys, in ascending order of their
\* keys alone, compared code unit by code unit.
RECURSIVE InKeyOrder(_)
InKeyOrder(m) ==
    IF m = <<>> THEN <<>>
    ELSE LET i == CHOOSE i \in 1..Len(m) :
                      \A j \in 1..Len(m) : j # i => StringLess(m[i][1], m[j][1])
         IN <<m[i]>> \o InKeyOrder(SubSeq(m, 1, i - 1) \o SubSeq(m, i + 1, Len(m)))

\* The text of one value: the words true and false, else its natural text.
TextualForm(v) ==
    IF v.type = "boolean"
    THEN (IF v.num = 1 THEN <<"t", "r", "u", "e">> ELSE <<"f", "a", "l", "s", "e">>)
    ELSE JsToString(v)

\* The texts of the entries' values, one after the other with no separator.
RECURSIVE TextsJoined(_)
TextsJoined(m) ==
    IF m = <<>> THEN <<>> ELSE TextualForm(Head(m)[2]) \o TextsJoined(Tail(m))

KeyOrderCanonical(m) == TextsJoined(InKeyOrder(WithoutOmissible(m)))

\* C12: the canonical string of a signed mapping is the texts of its
\* non-skipped values joined in ascending byte-wise order of their keys alone,
\* whatever the values are, whether one key is a prefix of another, and
\* whether a key looks like an integer.
C12_CanonicalFollowsKeyOrder ==
    sigOut # <<>> => sigOut[1].canonical = KeyOrderCanonical(sigData)

====
